---- MODULE Spec2Model ----
(***************************************************************************)
(* Home screen of the delivery-tracking app (src/app/(tabs)/index.tsx):    *)
(* the customer snapshot, the device position and the search text, and the *)
(* values every render derives from them: the filtered, distance-ranked    *)
(* list (sortedCustomers) and the nearest-customer pick (nearestCustomer). *)
(*                                                                         *)
(* Representation.  A JavaScript string is a sequence of one-character     *)
(* strings.  An optional value (null / undefined / absent field) is a      *)
(* sequence of length at most one: None is <<>>, Some(v) is <<v>>.         *)
(* Coordinates are integers in micro-degrees (1000000 = 1 degree).         *)
(* A flash message is never read character by character and is a plain     *)
(* string.                                                                 *)
(***************************************************************************)
EXTENDS Integers, Sequences, FiniteSets, TLC

VARIABLES customers, currentLocation, searchQuery,
          sortedCustomers, nearestCustomer, renderError,
          pointA, pointB, distanceAB, distanceBA,
          flashMessage, flashLog,
          loading, refreshing, error, loads, marks, alerts,
          formData, submitLoading, createCalls, route, homeMounted,
          successVisible, successText

\* The home screen: its state and what its render derives.
rankVars == <<customers, currentLocation, searchQuery,
              sortedCustomers, nearestCustomer, renderError>>

\* Two points and the results of calculateDistance between them, each way.
distanceVars == <<pointA, pointB, distanceAB, distanceBA>>

\* The slot of services/flash.ts and the record of the calls made on it.
flashVars == <<flashMessage, flashLog>>

\* The home screen's loading state, the loadCustomers and handleMarkDelivered
\* calls made so far, and the alerts shown (Alert.alert) by either screen.
loadVars == <<loading, refreshing, error, loads, marks, alerts>>

\* The add-customer screen, the route shown, and the success modal of the
\* home screen.
submitVars == <<formData, submitLoading, createCalls, route, homeMounted,
                successVisible, successText>>

vars == <<rankVars, distanceVars, flashVars, loadVars, submitVars>>

\* Longest customer snapshot the model draws.
MaxCustomers == 3

None == <<>>
Some(v) == <<v>>

\* JavaScript truthiness of an optional number: null, undefined and 0 are falsy.
TruthyNumber(n) == n # None /\ n[1] # 0

\* JavaScript truthiness of an optional string: null, undefined and "" are falsy.
TruthyString(s) == s # None /\ s[1] # <<>>

----------------------------------------------------------------------------
(* String primitives used by the filter.                                   *)

UpperToLower ==
    "A" :> "a" @@ "B" :> "b" @@ "C" :> "c" @@ "D" :> "d" @@ "E" :> "e" @@
    "F" :> "f" @@ "G" :> "g" @@ "H" :> "h" @@ "I" :> "i" @@ "J" :> "j" @@
    "K" :> "k" @@ "L" :> "l" @@ "M" :> "m" @@ "N" :> "n" @@ "O" :> "o" @@
    "P" :> "p" @@ "Q" :> "q" @@ "R" :> "r" @@ "S" :> "s" @@ "T" :> "t" @@
    "U" :> "u" @@ "V" :> "v" @@ "W" :> "w" @@ "X" :> "x" @@ "Y" :> "y" @@
    "Z" :> "z"

\* String.prototype.toLowerCase
toLowerCase(s) ==
    [i \in 1..Len(s) |-> IF s[i] \in DOMAIN UpperToLower
                         THEN UpperToLower[s[i]] ELSE s[i]]

IsWhiteSpace(ch) == ch \in {" ", "\t", "\n", "\r"}

RECURSIVE trimStart(_)
trimStart(s) ==
    IF s # <<>> /\ IsWhiteSpace(Head(s)) THEN trimStart(Tail(s)) ELSE s

RECURSIVE trimEnd(_)
trimEnd(s) ==
    IF s # <<>> /\ IsWhiteSpace(s[Len(s)])
    THEN trimEnd(SubSeq(s, 1, Len(s) - 1)) ELSE s

\* String.prototype.trim
trim(s) == trimEnd(trimStart(s))

\* String.prototype.includes
includes(s, q) ==
    \E i \in 0..(Len(s) - Len(q)) : SubSeq(s, i + 1, i + Len(q)) = q

----------------------------------------------------------------------------
(* calculateDistance: the haversine formula with R = 6371000, rounded by   *)
(* Math.round.  DistanceTable holds the values the IEEE-754 double         *)
(* evaluation of the formula gives at the coordinates the model uses,      *)
(* keyed by <<lat1, lon1, lat2, lon2>> in micro-degrees.                   *)

DistanceTable ==
    <<0, 0, 0, 0>> :> 0 @@
    <<0, 0, 0, 500000>> :> 55597 @@
    <<0, 0, 0, 1000000>> :> 111195 @@
    <<0, 0, 0, 1000900>> :> 111295 @@
    <<0, 0, 1000000, 0>> :> 111195 @@
    <<0, 0, 1000000, 500000>> :> 124318 @@
    <<0, 0, 1000000, 1000000>> :> 157249 @@
    <<0, 0, 1000000, 1000900>> :> 157320 @@
    <<0, 500000, 0, 0>> :> 55597 @@
    <<0, 500000, 0, 500000>> :> 0 @@
    <<0, 500000, 0, 1000000>> :> 55597 @@
    <<0, 500000, 0, 1000900>> :> 55698 @@
    <<0, 500000, 1000000, 0>> :> 124318 @@
    <<0, 500000, 1000000, 500000>> :> 111195 @@
    <<0, 500000, 1000000, 1000000>> :> 124318 @@
    <<0, 500000, 1000000, 1000900>> :> 124363 @@
    <<0, 1000000, 0, 0>> :> 111195 @@
    <<0, 1000000, 0, 500000>> :> 55597 @@
    <<0, 1000000, 0, 1000000>> :> 0 @@
    <<0, 1000000, 0, 1000900>> :> 100 @@
    <<0, 1000000, 1000000, 0>> :> 157249 @@
    <<0, 1000000, 1000000, 500000>> :> 124318 @@
    <<0, 1000000, 1000000, 1000000>> :> 111195 @@
    <<0, 1000000, 1000000, 1000900>> :> 111195 @@
    <<0, 1000900, 0, 0>> :> 111295 @@
    <<0, 1000900, 0, 500000>> :> 55698 @@
    <<0, 1000900, 0, 1000000>> :> 100 @@
    <<0, 1000900, 0, 1000900>> :> 0 @@
    <<0, 1000900, 1000000, 0>> :> 157320 @@
    <<0, 1000900, 1000000, 500000>> :> 124363 @@
    <<0, 1000900, 1000000, 1000000>> :> 111195 @@
    <<0, 1000900, 1000000, 1000900>> :> 111195 @@
    <<1000000, 0, 0, 0>> :> 111195 @@
    <<1000000, 0, 0, 500000>> :> 124318 @@
    <<1000000, 0, 0, 1000000>> :> 157249 @@
    <<1000000, 0, 0, 1000900>> :> 157320 @@
    <<1000000, 0, 1000000, 0>> :> 0 @@
    <<1000000, 0, 1000000, 500000>> :> 55589 @@
    <<1000000, 0, 1000000, 1000000>> :> 111178 @@
    <<1000000, 0, 1000000, 1000900>> :> 111278 @@
    <<1000000, 500000, 0, 0>> :> 124318 @@
    <<1000000, 500000, 0, 500000>> :> 111195 @@
    <<1000000, 500000, 0, 1000000>> :> 124318 @@
    <<1000000, 500000, 0, 1000900>> :> 124363 @@
    <<1000000, 500000, 1000000, 0>> :> 55589 @@
    <<1000000, 500000, 1000000, 500000>> :> 0 @@
    <<1000000, 500000, 1000000, 1000000>> :> 55589 @@
    <<1000000, 500000, 1000000, 1000900>> :> 55689 @@
    <<1000000, 1000000, 0, 0>> :> 157249 @@
    <<1000000, 1000000, 0, 500000>> :> 124318 @@
    <<1000000, 1000000, 0, 1000000>> :> 111195 @@
    <<1000000, 1000000, 0, 1000900>> :> 111195 @@
    <<1000000, 1000000, 1000000, 0>> :> 111178 @@
    <<1000000, 1000000, 1000000, 500000>> :> 55589 @@
    <<1000000, 1000000, 1000000, 1000000>> :> 0 @@
    <<1000000, 1000000, 1000000, 1000900>> :> 100 @@
    <<1000000, 1000900, 0, 0>> :> 157320 @@
    <<1000000, 1000900, 0, 500000>> :> 124363 @@
    <<1000000, 1000900, 0, 1000000>> :> 111195 @@
    <<1000000, 1000900, 0, 1000900>> :> 111195 @@
    <<1000000, 1000900, 1000000, 0>> :> 111278 @@
    <<1000000, 1000900, 1000000, 500000>> :> 55689 @@
    <<1000000, 1000900, 1000000, 1000000>> :> 100 @@
    <<1000000, 1000900, 1000000, 1000900>> :> 0

\* Variant of calculateDistance: the first latitude used for both points.
calculateDistance_firstLatitudeTwice(lat1, lon1, lat2, lon2) ==
    DistanceTable[<<lat1, lon1, lat1, lon2>>]

calculateDistance(lat1, lon1, lat2, lon2) ==
    DistanceTable[<<lat1, lon1, lat2, lon2>>]

----------------------------------------------------------------------------
(* The filter, the distance attachment, the sort and the nearest pick.     *)

DELIVERED == <<"d", "e", "l", "i", "v", "e", "r", "e", "d">>

\* (c.status || "")
StatusOrEmpty(c) == IF TruthyString(c.status) THEN c.status[1] ELSE <<>>

\* Variant of IsDelivered: the comparison without toLowerCase.
IsDelivered_caseSensitive(c) == StatusOrEmpty(c) = DELIVERED

\* Variant of IsDelivered: cancelled orders hidden as well.
IsDelivered_orCancelled(c) ==
    toLowerCase(StatusOrEmpty(c)) \in
        {DELIVERED, <<"c", "a", "n", "c", "e", "l", "l", "e", "d">>}

\* (c.status || "").toLowerCase() === "delivered"
IsDelivered(c) == toLowerCase(StatusOrEmpty(c)) = DELIVERED

\* searchQuery.trim().toLowerCase()
NormalisedQuery(query) == toLowerCase(trim(query))

\* Variant of OptionalFieldMatches: the field is not lower-cased.
OptionalFieldMatches_caseSensitive(field, q) ==
    TruthyString(field) /\ includes(field[1], q)

\* field && field.toLowerCase().includes(q), for the optional text fields
OptionalFieldMatches(field, q) ==
    TruthyString(field) /\ includes(toLowerCase(field[1]), q)

\* The callback of customers.filter: "keep", "drop", or "throw" when
\* toLowerCase is called on a missing name or address (TypeError).  The ||
\* chain short-circuits: address is read only when name does not match.
filterCallback(c, query) ==
    LET q == NormalisedQuery(query) IN
    IF IsDelivered(c) THEN "drop"
    ELSE IF q = <<>> THEN "keep"
    ELSE IF c.name = None THEN "throw"
    ELSE IF includes(toLowerCase(c.name[1]), q) THEN "keep"
    ELSE IF c.address = None THEN "throw"
    ELSE IF includes(toLowerCase(c.address[1]), q) THEN "keep"
    ELSE IF OptionalFieldMatches(c.deliveryPerson, q) THEN "keep"
    ELSE IF OptionalFieldMatches(c.orderDetails, q) THEN "keep"
    ELSE "drop"

FilterThrows(cs, query) ==
    \E i \in 1..Len(cs) : filterCallback(cs[i], query) = "throw"

filteredCustomers(cs, query) ==
    LET Keep(c) == filterCallback(c, query) = "keep" IN SelectSeq(cs, Keep)

\* currentLocation && c.latitude && c.longitude
HasDistance(loc, c) ==
    loc # None /\ TruthyNumber(c.latitude) /\ TruthyNumber(c.longitude)

\* Variant of WithDistance: the record's fields are not spread into the entry.
WithDistance_dropsFields(c, distance) == [distance |-> distance, _id |-> c._id]

\* { ...c, distance }
WithDistance(c, distance) == [distance |-> distance] @@ c

\* Variant of customersWithDistance: only the latitude is tested, a missing
\* longitude read as 0.
customersWithDistance_latitudeOnly(cs, loc) ==
    [i \in 1..Len(cs) |->
        WithDistance(cs[i],
            IF loc # None /\ TruthyNumber(cs[i].latitude)
            THEN Some(calculateDistance(loc[1].latitude, loc[1].longitude,
                          cs[i].latitude[1],
                          IF cs[i].longitude = None THEN 0 ELSE cs[i].longitude[1]))
            ELSE None)]

customersWithDistance(cs, loc) ==
    [i \in 1..Len(cs) |->
        WithDistance(cs[i],
            IF HasDistance(loc, cs[i])
            THEN Some(calculateDistance(loc[1].latitude, loc[1].longitude,
                                        cs[i].latitude[1], cs[i].longitude[1]))
            ELSE None)]

\* Variant of compareFn: entries without a distance sort first.
compareFn_nullFirst(a, b) ==
    IF a.distance = None /\ b.distance = None THEN 0
    ELSE IF a.distance = None THEN -1
    ELSE IF b.distance = None THEN 1
    ELSE a.distance[1] - b.distance[1]

\* Variant of compareFn: farthest first.
compareFn_descending(a, b) ==
    IF a.distance = None /\ b.distance = None THEN 0
    ELSE IF a.distance = None THEN 1
    ELSE IF b.distance = None THEN -1
    ELSE b.distance[1] - a.distance[1]

\* Variant of compareFn: equal distances compare as greater.
compareFn_tiesGreater(a, b) ==
    IF a.distance = None /\ b.distance = None THEN 0
    ELSE IF a.distance = None THEN 1
    ELSE IF b.distance = None THEN -1
    ELSE IF a.distance[1] >= b.distance[1] THEN 1 ELSE -1

\* Variant of compareFn: without the both-null case.
compareFn_nullsUnordered(a, b) ==
    IF a.distance = None THEN 1
    ELSE IF b.distance = None THEN -1
    ELSE a.distance[1] - b.distance[1]

\* The comparator handed to Array.prototype.sort.
compareFn(a, b) ==
    IF a.distance = None /\ b.distance = None THEN 0
    ELSE IF a.distance = None THEN 1
    ELSE IF b.distance = None THEN -1
    ELSE a.distance[1] - b.distance[1]

\* One step of a stable sort: x goes behind every element that does not
\* compare greater than it.
RECURSIVE InsertSorted(_, _)
InsertSorted(sorted, x) ==
    IF sorted # <<>> /\ compareFn(sorted[Len(sorted)], x) > 0
    THEN Append(InsertSorted(SubSeq(sorted, 1, Len(sorted) - 1), x),
                sorted[Len(sorted)])
    ELSE Append(sorted, x)

\* Array.prototype.sort(compareFn): stable since ECMAScript 2019.
RECURSIVE SortFrom(_, _, _)
SortFrom(arr, i, sorted) ==
    IF i > Len(arr) THEN sorted
    ELSE SortFrom(arr, i + 1, InsertSorted(sorted, arr[i]))

sort(arr) == SortFrom(arr, 1, <<>>)

\* Variant of BelowMinimum: <= in place of <, the last of equal distances
\* winning.
BelowMinimum_orEqual(distance, minDistance) ==
    minDistance = None \/ distance <= minDistance[1]

\* distance < minDistance, minDistance starting at Infinity (None here)
BelowMinimum(distance, minDistance) ==
    minDistance = None \/ distance < minDistance[1]

\* The forEach of getNearestCustomerInfo from index i on, acc holding the
\* closure variables nearest and minDistance.
RECURSIVE NearestScan(_, _, _, _)
NearestScan(cs, loc, i, acc) ==
    IF i > Len(cs) THEN acc.nearest
    ELSE LET customer == cs[i]
             distance == calculateDistance(loc[1].latitude, loc[1].longitude,
                             customer.latitude[1], customer.longitude[1])
         IN IF ~TruthyNumber(customer.latitude) \/ ~TruthyNumber(customer.longitude)
            THEN NearestScan(cs, loc, i + 1, acc)
            ELSE IF TruthyString(customer.status)
                    /\ toLowerCase(customer.status[1]) = DELIVERED
            THEN NearestScan(cs, loc, i + 1, acc)
            ELSE IF BelowMinimum(distance, acc.minDistance)
            THEN NearestScan(cs, loc, i + 1,
                     [nearest |-> Some(WithDistance(customer, Some(distance))),
                      minDistance |-> Some(distance)])
            ELSE NearestScan(cs, loc, i + 1, acc)

\* Variant of getNearestCustomerInfo: an unknown device position read as (0,0).
getNearestCustomerInfo_defaultOrigin(cs, loc) ==
    NearestScan(cs,
                IF loc = None THEN Some([latitude |-> 0, longitude |-> 0]) ELSE loc,
                1, [nearest |-> None, minDistance |-> None])

getNearestCustomerInfo(cs, loc) ==
    IF loc = None THEN None
    ELSE NearestScan(cs, loc, 1, [nearest |-> None, minDistance |-> None])

\* Variant of Render: the nearest pick scans the filtered list.
Render_pickFromFiltered(cs, loc, query) ==
    IF FilterThrows(cs, query)
    THEN [sorted   |-> <<>>,
          nearest  |-> getNearestCustomerInfo(cs, loc),
          error    |-> TRUE,
          snapshot |-> cs]
    ELSE [sorted   |-> sort(customersWithDistance(filteredCustomers(cs, query), loc)),
          nearest  |-> getNearestCustomerInfo(filteredCustomers(cs, query), loc),
          error    |-> FALSE,
          snapshot |-> cs]

\* Variant of Render: the distance is attached to the records of the snapshot
\* and the snapshot itself is sorted, the list being filtered from it.
Render_sortsSnapshot(cs, loc, query) ==
    IF FilterThrows(cs, query)
    THEN [sorted   |-> <<>>,
          nearest  |-> getNearestCustomerInfo(cs, loc),
          error    |-> TRUE,
          snapshot |-> cs]
    ELSE [sorted   |-> filteredCustomers(sort(customersWithDistance(cs, loc)), query),
          nearest  |-> getNearestCustomerInfo(cs, loc),
          error    |-> FALSE,
          snapshot |-> sort(customersWithDistance(cs, loc))]

\* What one render of HomeScreen derives from the state.  The nearest pick is
\* computed first (line 335); a TypeError in the filter callback (line 355)
\* then aborts the render and no ranked list is produced.  snapshot is the
\* customers array as the render leaves it: filter and map return new arrays
\* and { ...c, distance } is a new object, so the in-place sort has the
\* mapped array as its receiver and the state array keeps its elements, its
\* order and its records.
Render(cs, loc, query) ==
    IF FilterThrows(cs, query)
    THEN [sorted   |-> <<>>,
          nearest  |-> getNearestCustomerInfo(cs, loc),
          error    |-> TRUE,
          snapshot |-> cs]
    ELSE [sorted   |-> sort(customersWithDistance(filteredCustomers(cs, query), loc)),
          nearest  |-> getNearestCustomerInfo(cs, loc),
          error    |-> FALSE,
          snapshot |-> cs]

----------------------------------------------------------------------------
(* What the rendered screen shows of the derived values.                   *)

\* The distance up to which an entry counts as reached.
NearbyMeters == 100

\* customer.status.toUpperCase() in a list item: a TypeError on a missing
\* status, which aborts the render like the one of the filter.
ListItemThrows(entry) == entry.status = None

\* The condition of the nearest-customer card (loading and error aside).
NearestCardVisible(cs) ==
    \E i \in 1..Len(cs) :
        /\ TruthyNumber(cs[i].latitude)
        /\ TruthyNumber(cs[i].longitude)
        /\ (~TruthyString(cs[i].status)
              \/ toLowerCase(cs[i].status[1]) # DELIVERED)

\* nearestCustomer.distance <= 100 && "You're nearby!"
YoureNearbyText(nearest) == nearest.distance[1] <= NearbyMeters

\* Variant of WithinRangeText: without the null test, null <= 100 being true
\* in JavaScript.
WithinRangeText_nullAsZero(entry) ==
    IF entry.distance = None THEN 0 <= NearbyMeters
    ELSE entry.distance[1] <= NearbyMeters

\* distance != null && distance <= 100 && "Within range!"
WithinRangeText(entry) ==
    entry.distance # None /\ entry.distance[1] <= NearbyMeters

----------------------------------------------------------------------------
(* The inputs the model draws.                                             *)

PENDING == <<"p", "e", "n", "d", "i", "n", "g">>
CANCELLED == <<"c", "a", "n", "c", "e", "l", "l", "e", "d">>

\* A customer record without its _id; the snapshot assigns the _id.
Record(name, address, latitude, longitude, orderDetails, deliveryPerson, status) ==
    [name |-> name, address |-> address,
     latitude |-> latitude, longitude |-> longitude,
     orderDetails |-> orderDetails, deliveryPerson |-> deliveryPerson,
     status |-> status]

OAK == Some(<<"O", "a", "k">>)
ELM == Some(<<"E", "l", "m">>)
PIER == Some(<<"P", "i", "e", "r">>)

RecA == Record(Some(<<"P", "i", "a">>), OAK, Some(0), Some(0), None, None, Some(PENDING))
RecB == Record(Some(<<"B", "o">>), OAK, Some(0), Some(1000000),
               None, Some(<<"P", "i", "p">>), Some(PENDING))
RecC == Record(Some(<<"C", "y">>), OAK, Some(0), Some(500000), None, None, Some(DELIVERED))
RecE == Record(Some(<<"E", "d">>), PIER, Some(1000000), Some(500000),
               Some(<<"T", "e", "a">>), Some(<<>>), Some(CANCELLED))
RecF == Record(Some(<<"F", "l", "o">>), ELM, None, None,
               Some(<<"P", "I", "Z", "Z", "A">>), None, None)
RecG == Record(Some(<<"G", "u", "s">>), None, Some(1000000), None, None, None, Some(PENDING))
RecH == Record(Some(<<"H", "a", "l">>), PIER, Some(1000000), Some(1000900), None, None,
               Some(<<"D", "e", "L", "I", "v", "e", "r", "e", "d">>))
RecI == Record(Some(<<"I", "v", "y">>), ELM, Some(1000000), Some(1000900), None, None,
               Some(PENDING))
RecJ == Record(None, OAK, None, Some(1000000), None, None, Some(PENDING))

CustomerPool ==
    {RecA, RecB, RecC, RecE, RecF, RecG, RecH, RecI, RecJ}

\* The customer of the type Customer: _id is unique within a snapshot.
WithId(rec, id) == [_id |-> id] @@ rec

Snapshot(recs) == [i \in 1..Len(recs) |-> WithId(recs[i], i)]

Snapshots ==
    UNION {{Snapshot(recs) : recs \in [1..n -> CustomerPool]} : n \in 0..MaxCustomers}

Position(latitude, longitude) == [latitude |-> latitude, longitude |-> longitude]

DevicePositions == {Position(0, 0), Position(1000000, 1000000)}

Queries == {<<>>, <<" ">>, <<" ", "P", "i">>}

----------------------------------------------------------------------------
(* State machine: the home screen with a loaded snapshot; every state      *)
(* change re-renders, which recomputes the derived values.                 *)

Rerender(cs, loc, query) ==
    LET r == Render(cs, loc, query) IN
    /\ customers' = r.snapshot
    /\ sortedCustomers' = r.sorted
    /\ nearestCustomer' = r.nearest
    /\ renderError' = r.error

\* The home screen before anything is loaded.
RankIdle ==
    /\ customers = <<>>
    /\ currentLocation = None
    /\ searchQuery = <<>>
    /\ sortedCustomers = <<>>
    /\ nearestCustomer = None
    /\ renderError = FALSE

\* No distance asked for.
DistanceIdle ==
    /\ pointA = Position(0, 0)
    /\ pointB = Position(0, 0)
    /\ distanceAB = None
    /\ distanceBA = None

\* let _flashMessage: string | null = null, and no call made yet.
FlashIdle ==
    /\ flashMessage = None
    /\ flashLog = <<>>

\* useState(true), useState(false), useState(null) of the home screen, no
\* call made and no alert shown.
LoadIdle ==
    /\ loading = TRUE
    /\ refreshing = FALSE
    /\ error = None
    /\ loads = <<>>
    /\ marks = <<>>
    /\ alerts = <<>>

\* The empty form of the add-customer screen, the home route, no modal.
SubmitIdle ==
    /\ formData = [name |-> <<>>, address |-> <<>>, latitude |-> <<>>, longitude |-> <<>>]
    /\ submitLoading = FALSE
    /\ createCalls = <<>>
    /\ route = "/"
    /\ homeMounted = FALSE
    /\ successVisible = FALSE
    /\ successText = ""

InitRank ==
    /\ DistanceIdle
    /\ FlashIdle
    /\ LoadIdle
    /\ SubmitIdle
    /\ customers \in Snapshots
    /\ currentLocation = None
    /\ searchQuery = <<>>
    /\ LET r == Render(customers, currentLocation, searchQuery) IN
       /\ sortedCustomers = r.sorted
       /\ nearestCustomer = r.nearest
       /\ renderError = r.error

\* onChangeText={setSearchQuery}, and the clear button's setSearchQuery("")
SetSearchQuery(text) ==
    /\ text # searchQuery
    /\ searchQuery' = text
    /\ UNCHANGED <<currentLocation, distanceVars, flashVars,
                 loadVars, submitVars>>
    /\ Rerender(customers, currentLocation, text)

\* startLocationTracking: setCurrentLocation({ latitude, longitude })
SetCurrentLocation(p) ==
    /\ currentLocation = None
    /\ currentLocation' = Some(p)
    /\ UNCHANGED <<searchQuery, distanceVars, flashVars,
                 loadVars, submitVars>>
    /\ Rerender(customers, Some(p), searchQuery)

NextRank ==
    \/ \E text \in Queries : SetSearchQuery(text)
    \/ \E p \in DevicePositions : SetCurrentLocation(p)

SpecRank == InitRank /\ [][NextRank]_vars

----------------------------------------------------------------------------
(* calculateDistance on its own: two points of the grid, the distance      *)
(* asked for in each direction.                                            *)

GridPoints ==
    {Position(lat, lon) : lat \in {0, 1000000},
                          lon \in {0, 500000, 1000000, 1000900}}

InitDistance ==
    /\ RankIdle
    /\ FlashIdle
    /\ LoadIdle
    /\ SubmitIdle
    /\ pointA \in GridPoints
    /\ pointB \in GridPoints
    /\ distanceAB = None
    /\ distanceBA = None

\* calculateDistance(A.latitude, A.longitude, B.latitude, B.longitude)
MeasureAB ==
    /\ distanceAB = None
    /\ distanceAB' = Some(calculateDistance(pointA.latitude, pointA.longitude,
                                            pointB.latitude, pointB.longitude))
    /\ UNCHANGED <<pointA, pointB, distanceBA, rankVars, flashVars,
                 loadVars, submitVars>>

\* calculateDistance(B.latitude, B.longitude, A.latitude, A.longitude)
MeasureBA ==
    /\ distanceBA = None
    /\ distanceBA' = Some(calculateDistance(pointB.latitude, pointB.longitude,
                                            pointA.latitude, pointA.longitude))
    /\ UNCHANGED <<pointA, pointB, distanceAB, rankVars, flashVars,
                 loadVars, submitVars>>

NextDistance == MeasureAB \/ MeasureBA

SpecDistance == InitDistance /\ [][NextDistance]_vars

----------------------------------------------------------------------------
(* services/flash.ts: one slot, written by setFlash, read and cleared by   *)
(* consumeFlash.  flashLog records each call with the message passed or    *)
(* returned.                                                               *)

\* Longest sequence of calls on the slot.
MaxFlashCalls == 4

Messages == {"Customer added successfully", "Order saved"}

InitFlash ==
    /\ RankIdle
    /\ DistanceIdle
    /\ LoadIdle
    /\ SubmitIdle
    /\ FlashIdle

setFlash(message) ==
    /\ Len(flashLog) < MaxFlashCalls
    /\ flashMessage' = Some(message)
    /\ flashLog' = Append(flashLog, [op |-> "setFlash", value |-> Some(message)])
    /\ UNCHANGED <<rankVars, distanceVars, loadVars, submitVars>>

\* Variant of consumeFlash: the slot is returned and not cleared.
consumeFlash_keepsSlot ==
    /\ Len(flashLog) < MaxFlashCalls
    /\ flashMessage' = flashMessage
    /\ flashLog' = Append(flashLog, [op |-> "consumeFlash", value |-> flashMessage])
    /\ UNCHANGED <<rankVars, distanceVars, loadVars, submitVars>>

consumeFlash ==
    /\ Len(flashLog) < MaxFlashCalls
    /\ flashMessage' = None
    /\ flashLog' = Append(flashLog, [op |-> "consumeFlash", value |-> flashMessage])
    /\ UNCHANGED <<rankVars, distanceVars, loadVars, submitVars>>

NextFlash ==
    \/ \E message \in Messages : setFlash(message)
    \/ consumeFlash

SpecFlash == InitFlash /\ [][NextFlash]_vars

----------------------------------------------------------------------------
(* The home screen's asynchronous handlers: the mount effect, loadCustomers *)
(* (from the mount effect, onRefresh, the retry button and                  *)
(* handleMarkDelivered) and handleMarkDelivered.  A call that awaits is a   *)
(* record in loads or marks; the step that settles the awaited promise runs *)
(* the rest of the handler, continuations of an await included, since       *)
(* nothing else runs between a promise's settlement and its continuations.  *)

\* Most loadCustomers calls made, and most handleMarkDelivered calls made.
MaxLoads == 3
MaxMarks == 1

\* What the server returns for the customer list: before and after the
\* second customer is marked delivered.
PendingPayload == Snapshot(<<RecE, RecI>>)
DeliveredPayload == [PendingPayload EXCEPT ![2].status = Some(DELIVERED)]
Payloads == {PendingPayload, DeliveredPayload}

\* How an awaited request settles: the value it resolves with (success and
\* customers of ApiResponse), or the message of the Error it rejects with.
Response(kind, success, cs, message) ==
    [kind |-> kind, success |-> success, customers |-> cs, message |-> message]

GetCustomersOutcomes ==
    {Response("resolve", TRUE, Some(p), "") : p \in Payloads}
        \cup {Response("resolve", FALSE, None, ""),
              Response("reject", FALSE, None, "Network request failed")}

UpdateOutcomes ==
    {Response("resolve", TRUE, None, ""),
     Response("reject", FALSE, None, "Failed to update customer: 500")}

\* Alert.alert(title, message)
Alert(title, message) == [title |-> title, message |-> message]

\* response.success && Array.isArray(response.customers)
Accepted(response) ==
    response.kind = "resolve" /\ response.success /\ response.customers # None

\* The message of the error the catch block of loadCustomers receives.
Thrown(response) ==
    IF response.kind = "reject" THEN response.message
    ELSE "Invalid response format from server"

\* error.message || "Failed to load customers"
LoadErrorText(message) ==
    IF message # "" THEN message ELSE "Failed to load customers"

\* err?.message || "Failed to update status"
UpdateErrorText(message) ==
    IF message # "" THEN message ELSE "Failed to update status"

\* loadCustomers up to its await: setError(null), then getCustomers() is in
\* flight.  mark is the handleMarkDelivered call awaiting this call, or 0.
loadCustomersStart(mark) ==
    /\ error' = None
    /\ loads' = Append(loads, [pc |-> "awaiting", mark |-> mark,
                               response |-> None, stamp |-> 0])

\* Calls of loadCustomers still to come from handleMarkDelivered calls that
\* await updateCustomerStatus.
ReloadsOwed == Cardinality({m \in 1..Len(marks) : marks[m].pc = "updating"})

CanLoad == Len(loads) + ReloadsOwed < MaxLoads

\* useEffect(() => { consumeFlash ...; loadCustomers(); }, []) 
HomeMountEffect ==
    /\ route = "/"
    /\ ~homeMounted
    /\ CanLoad
    /\ homeMounted' = TRUE
    /\ flashMessage' = None
    /\ flashLog' = Append(flashLog, [op |-> "consumeFlash", value |-> flashMessage])
    /\ IF flashMessage # None /\ flashMessage[1] # ""
       THEN successText' = flashMessage[1] /\ successVisible' = TRUE
       ELSE UNCHANGED <<successText, successVisible>>
    /\ loadCustomersStart(0)
    /\ UNCHANGED <<rankVars, distanceVars, loading, refreshing, marks, alerts,
                   formData, submitLoading, createCalls, route>>

onRefresh ==
    /\ homeMounted
    /\ CanLoad
    /\ refreshing' = TRUE
    /\ loadCustomersStart(0)
    /\ UNCHANGED <<rankVars, distanceVars, flashVars, submitVars,
                   loading, marks, alerts>>

\* The retry button of the error card: onPress={loadCustomers}
Retry ==
    /\ homeMounted
    /\ error # None
    /\ ~loading
    /\ CanLoad
    /\ loadCustomersStart(0)
    /\ UNCHANGED <<rankVars, distanceVars, flashVars, submitVars,
                   loading, refreshing, marks, alerts>>

\* Variant of Applies: a response is used only if no later call was made.
Applies_latestOnly(k, response) ==
    /\ response.kind = "resolve" /\ response.success /\ response.customers # None
    /\ k = Len(loads)

\* The test of line 87 on the response of the k-th call.
Applies(k, response) == Accepted(response)

\* getCustomers() of the k-th loadCustomers call settles: the rest of
\* loadCustomers runs, and after it the rest of the handleMarkDelivered call
\* that awaits it, if any.
GetCustomersSettles(k, response) ==
    /\ k \in 1..Len(loads)
    /\ loads[k].pc = "awaiting"
    /\ LET ok == Applies(k, response)
           m == loads[k].mark
           loadAlerts ==
               IF ok THEN alerts
               ELSE Append(alerts, Alert("Error", "Failed to load customers from server"))
       IN /\ loads' = [loads EXCEPT ![k] =
                 [@ EXCEPT !.pc = "done", !.response = Some(response),
                           !.stamp = 1 + Cardinality({j \in 1..Len(loads) :
                                                        loads[j].pc = "done"})]]
          /\ IF ok
             THEN /\ Rerender(response.customers[1], currentLocation, searchQuery)
                  /\ UNCHANGED error
             ELSE /\ error' = Some(LoadErrorText(Thrown(response)))
                  /\ UNCHANGED <<customers, sortedCustomers, nearestCustomer, renderError>>
          /\ loading' = FALSE
          /\ refreshing' = FALSE
          /\ IF m = 0
             THEN marks' = marks /\ alerts' = loadAlerts
             ELSE /\ marks' = [marks EXCEPT ![m].pc = "done"]
                  /\ alerts' = Append(loadAlerts,
                                      Alert("Success", "Order marked as delivered"))
    /\ UNCHANGED <<currentLocation, searchQuery, distanceVars, flashVars, submitVars>>

\* The Mark Delivered button of the nearest-customer card.
handleMarkDelivered(id) ==
    /\ homeMounted
    /\ ~loading
    /\ error = None
    /\ ~renderError
    /\ NearestCardVisible(customers)
    /\ nearestCustomer # None
    /\ id = nearestCustomer[1]._id
    /\ Len(marks) < MaxMarks
    /\ CanLoad
    /\ marks' = Append(marks, [id |-> id, pc |-> "updating", load |-> 0])
    /\ UNCHANGED <<rankVars, distanceVars, flashVars, submitVars,
                   loading, refreshing, error, loads, alerts>>

\* Variant of UpdateCustomerStatusSettles: loadCustomers() is called without
\* await, the success alert following at once.
UpdateCustomerStatusSettles_noAwait(m, response) ==
    /\ m \in 1..Len(marks)
    /\ marks[m].pc = "updating"
    /\ IF response.kind = "resolve"
       THEN /\ error' = None
            /\ loads' = Append(loads, [pc |-> "awaiting", mark |-> 0,
                                       response |-> None, stamp |-> 0])
            /\ marks' = [marks EXCEPT ![m].pc = "done", ![m].load = Len(loads) + 1]
            /\ alerts' = Append(alerts, Alert("Success", "Order marked as delivered"))
       ELSE /\ marks' = [marks EXCEPT ![m].pc = "failed"]
            /\ alerts' = Append(alerts,
                   Alert("Error", IF response.message # "" THEN response.message
                                  ELSE "Failed to update status"))
            /\ UNCHANGED <<error, loads>>
    /\ UNCHANGED <<rankVars, distanceVars, flashVars, submitVars, loading, refreshing>>

\* updateCustomerStatus(id, "delivered") of the m-th handleMarkDelivered call
\* settles: on success loadCustomers() is called and awaited, on failure the
\* catch block shows the error.
UpdateCustomerStatusSettles(m, response) ==
    /\ m \in 1..Len(marks)
    /\ marks[m].pc = "updating"
    /\ IF response.kind = "resolve"
       THEN /\ loadCustomersStart(m)
            /\ marks' = [marks EXCEPT ![m].pc = "reloading", ![m].load = Len(loads) + 1]
            /\ UNCHANGED alerts
       ELSE /\ marks' = [marks EXCEPT ![m].pc = "failed"]
            /\ alerts' = Append(alerts, Alert("Error", UpdateErrorText(response.message)))
            /\ UNCHANGED <<error, loads>>
    /\ UNCHANGED <<rankVars, distanceVars, flashVars, submitVars, loading, refreshing>>

\* The device position the home screen is used at.
LoadPosition == Position(1000000, 1000000)

\* The home screen at "/" before its mount effect has run.
InitLoad ==
    /\ RankIdle
    /\ DistanceIdle
    /\ FlashIdle
    /\ LoadIdle
    /\ SubmitIdle

NextLoad ==
    \/ HomeMountEffect
    \/ SetCurrentLocation(LoadPosition)
    \/ onRefresh
    \/ Retry
    \/ \E k \in 1..Len(loads), response \in GetCustomersOutcomes :
          GetCustomersSettles(k, response)
    \/ \E id \in 1..MaxCustomers : handleMarkDelivered(id)
    \/ \E m \in 1..Len(marks), response \in UpdateOutcomes :
          UpdateCustomerStatusSettles(m, response)

SpecLoad == InitLoad /\ [][NextLoad]_vars

----------------------------------------------------------------------------
(* The add-customer screen (src/app/(tabs)/add-customer.tsx): the form,     *)
(* handleSubmit and the navigation to the home screen that follows a        *)
(* created customer.  orderDetails and deliveryPerson take no part in the   *)
(* control flow of handleSubmit and are left out of the form.               *)

\* Most presses of the submit button.
MaxSubmits == 2

DigitValue ==
    "0" :> 0 @@ "1" :> 1 @@ "2" :> 2 @@ "3" :> 3 @@ "4" :> 4 @@
    "5" :> 5 @@ "6" :> 6 @@ "7" :> 7 @@ "8" :> 8 @@ "9" :> 9

\* The digits of s from index i on: their value and the index after them.
RECURSIVE ReadDigits(_, _, _, _)
ReadDigits(s, i, num, count) ==
    IF i <= Len(s) /\ s[i] \in DOMAIN DigitValue
    THEN ReadDigits(s, i + 1, 10 * num + DigitValue[s[i]], count + 1)
    ELSE [num |-> num, count |-> count, next |-> i]

RECURSIVE PowerOfTen(_)
PowerOfTen(n) == IF n = 0 THEN 1 ELSE 10 * PowerOfTen(n - 1)

\* parseFloat for decimal literals without exponent: leading white space is
\* skipped, then an optional sign, digits, and an optional fraction are
\* read; what follows is ignored; NaN if no digit was read.  The result is
\* the fraction num / den.
parseFloat(text) ==
    LET s == trimStart(text)
        signed == Len(s) >= 1 /\ s[1] \in {"-", "+"}
        negative == signed /\ s[1] = "-"
        whole == ReadDigits(s, IF signed THEN 2 ELSE 1, 0, 0)
        hasPoint == whole.next <= Len(s) /\ s[whole.next] = "."
        fraction == IF hasPoint THEN ReadDigits(s, whole.next + 1, whole.num, 0)
                    ELSE [num |-> whole.num, count |-> 0, next |-> whole.next]
    IN IF whole.count + fraction.count = 0
       THEN [nan |-> TRUE, num |-> 0, den |-> 1]
       ELSE [nan |-> FALSE,
             num |-> IF negative THEN 0 - fraction.num ELSE fraction.num,
             den |-> PowerOfTen(fraction.count)]

\* Variant of OutOfRange: the lower limit is not tested.
OutOfRange_upperOnly(n, limit) == n.nan \/ n.num > limit * n.den

\* isNaN(lat) || lat < -90 || lat > 90, and the same with 180
OutOfRange(n, limit) ==
    n.nan \/ n.num < (0 - limit) * n.den \/ n.num > limit * n.den

\* What the user types into the fields.
NameTexts == {<<" ">>, <<"A", "l">>}
AddressTexts == {<<"O", "a", "k", " ">>}
LatitudeTexts == {<<" ">>, <<" ", "4", "5">>, <<"9", "0", ".", "5">>, <<"x", "7">>}
LongitudeTexts == {<<"-", "1", "8", "0">>, <<"-", "1", "8", "1">>, <<"8", "x">>}

\* handleInputChange(field, value); the fields are editable={!loading}
handleInputChange(field, value) ==
    /\ route = "/add-customer"
    /\ ~submitLoading
    /\ formData[field] # value
    /\ formData' = [formData EXCEPT ![field] = value]
    /\ UNCHANGED <<rankVars, distanceVars, flashVars, loadVars,
                   submitLoading, createCalls, route, homeMounted,
                   successVisible, successText>>

\* The payload handleSubmit builds; an absent coordinate is None.
Payload(form) ==
    [name |-> trim(form.name), address |-> trim(form.address),
     latitude |-> IF trim(form.latitude) # <<>>
                  THEN Some(parseFloat(form.latitude)) ELSE None,
     longitude |-> IF trim(form.longitude) # <<>>
                   THEN Some(parseFloat(form.longitude)) ELSE None]

\* The alert of the first validation of handleSubmit that fails, or None.
ValidationError(form) ==
    IF trim(form.name) = <<>>
    THEN Some(Alert("Validation Error", "Please provide customer name"))
    ELSE IF trim(form.address) = <<>>
    THEN Some(Alert("Validation Error", "Please provide address"))
    ELSE IF trim(form.latitude) # <<>> /\ OutOfRange(parseFloat(form.latitude), 90)
    THEN Some(Alert("Validation Error",
                    "Latitude must be a valid number between -90 and 90"))
    ELSE IF trim(form.longitude) # <<>> /\ OutOfRange(parseFloat(form.longitude), 180)
    THEN Some(Alert("Validation Error",
                    "Longitude must be a valid number between -180 and 180"))
    ELSE None

\* handleSubmit up to its await.  The button is disabled={loading || ...};
\* its own test of name and address is left out here, so that the tests
\* handleSubmit makes itself (lines 61-69) are exercised.
handleSubmit ==
    /\ route = "/add-customer"
    /\ ~submitLoading
    /\ Len(alerts) + Len(createCalls) < MaxSubmits
    /\ IF ValidationError(formData) # None
       THEN /\ alerts' = Append(alerts, ValidationError(formData)[1])
            /\ submitLoading' = FALSE
            /\ UNCHANGED createCalls
       ELSE /\ submitLoading' = TRUE
            /\ createCalls' = Append(createCalls,
                                     [pc |-> "awaiting", payload |-> Payload(formData)])
            /\ UNCHANGED alerts
    /\ UNCHANGED <<rankVars, distanceVars, flashVars,
                   loading, refreshing, error, loads, marks,
                   formData, route, homeMounted, successVisible, successText>>

\* setFlash("Customer added successfully")
FlashText == "Customer added successfully"

CreateOutcomes ==
    {Response("resolve", TRUE, None, ""),
     Response("reject", FALSE, None, "Network request failed"),
     Response("reject", FALSE, None, "Failed to create customer: 500")}

\* The message of the alert in the catch block of handleSubmit, for messages
\* that are not JSON.
SubmitErrorText(message) ==
    IF message = "" THEN "Failed to add customer"
    ELSE IF message = "Network request failed"
    THEN "Network error: Cannot connect to server. Please check if the backend is running."
    ELSE message

\* A new instance of the home screen: its state as useState initialises it,
\* its mount effect still to run.
FreshHome ==
    /\ homeMounted' = FALSE
    /\ customers' = <<>>
    /\ currentLocation' = None
    /\ searchQuery' = <<>>
    /\ sortedCustomers' = <<>>
    /\ nearestCustomer' = None
    /\ renderError' = FALSE
    /\ loading' = TRUE
    /\ refreshing' = FALSE
    /\ error' = None
    /\ loads' = <<>>
    /\ marks' = <<>>
    /\ successVisible' = FALSE
    /\ successText' = ""

\* router.push("/"): the home route is shown, either by the instance of the
\* home screen that is mounted already or by a new instance.
RouterPushHome(fresh) ==
    /\ route' = "/"
    /\ IF fresh THEN FreshHome
       ELSE UNCHANGED <<rankVars, loading, refreshing, error, loads, marks,
                        homeMounted, successVisible, successText>>

\* The add-customer route is opened from the home screen.
OpenAddCustomer ==
    /\ route = "/"
    /\ homeMounted
    /\ route' = "/add-customer"
    /\ UNCHANGED <<rankVars, distanceVars, flashVars, loadVars,
                   formData, submitLoading, createCalls, homeMounted,
                   successVisible, successText>>

\* createCustomer(payload) settles: on success setFlash and router.push("/"),
\* on failure the alert of the catch block; setLoading(false) in both cases.
CreateCustomerSettles(c, response, fresh) ==
    /\ c \in 1..Len(createCalls)
    /\ createCalls[c].pc = "awaiting"
    /\ IF response.kind = "resolve"
       THEN /\ createCalls' = [createCalls EXCEPT ![c].pc = "created"]
            /\ flashMessage' = Some(FlashText)
            /\ flashLog' = Append(flashLog, [op |-> "setFlash", value |-> Some(FlashText)])
            /\ RouterPushHome(fresh)
            /\ UNCHANGED alerts
       ELSE /\ ~fresh
            /\ createCalls' = [createCalls EXCEPT ![c].pc = "failed"]
            /\ alerts' = Append(alerts, Alert("Error", SubmitErrorText(response.message)))
            /\ UNCHANGED <<rankVars, flashVars, loading, refreshing, error, loads, marks,
                           route, homeMounted, successVisible, successText>>
    /\ submitLoading' = FALSE
    /\ UNCHANGED <<distanceVars, formData>>

\* The OK button of the success modal of the home screen.
handleSuccessOk ==
    /\ route = "/"
    /\ successVisible
    /\ successVisible' = FALSE
    /\ UNCHANGED <<rankVars, distanceVars, flashVars, loadVars,
                   formData, submitLoading, createCalls, route, homeMounted,
                   successText>>

\* The app opens on the home route, the home screen's mount effect still to
\* run.
InitSubmit ==
    /\ RankIdle
    /\ DistanceIdle
    /\ FlashIdle
    /\ LoadIdle
    /\ SubmitIdle

NextSubmit ==
    \/ HomeMountEffect
    \/ OpenAddCustomer
    \/ \E value \in NameTexts : handleInputChange("name", value)
    \/ \E value \in AddressTexts : handleInputChange("address", value)
    \/ \E value \in LatitudeTexts : handleInputChange("latitude", value)
    \/ \E value \in LongitudeTexts : handleInputChange("longitude", value)
    \/ handleSubmit
    \/ \E c \in 1..Len(createCalls), response \in CreateOutcomes, fresh \in BOOLEAN :
          CreateCustomerSettles(c, response, fresh)
    \/ handleSuccessOk

SpecSubmit == InitSubmit /\ [][NextSubmit]_vars

----------------------------------------------------------------------------
(* Vocabulary of the properties, stated on the inputs and the outputs      *)
(* without the operators of the render.                                    *)

SameLetterIgnoringCase(a, b) ==
    \/ a = b
    \/ a \in DOMAIN UpperToLower /\ UpperToLower[a] = b
    \/ b \in DOMAIN UpperToLower /\ UpperToLower[b] = a

EqualsIgnoringCase(s, t) ==
    Len(s) = Len(t) /\ \A i \in 1..Len(s) : SameLetterIgnoringCase(s[i], t[i])

\* The record's status is "delivered" in some capitalisation.
DeliveredStatus(c) == c.status # None /\ EqualsIgnoringCase(c.status[1], DELIVERED)

\* The record has a latitude and a longitude (0 included).
Positioned(c) == c.latitude # None /\ c.longitude # None

\* Every record has the name and the address the type Customer requires.
WellTyped == \A i \in 1..Len(customers) :
    customers[i].name # None /\ customers[i].address # None

RankedPositions == 1..Len(sortedCustomers)

\* Customer i of the snapshot is an entry of the ranked list.
Ranked(i) == \E k \in RankedPositions : sortedCustomers[k]._id = i

TextContains(field, q) == field # None /\ includes(toLowerCase(field[1]), q)

\* The trimmed, lower-cased query is a substring of one of the four fields.
QueryMatches(c) ==
    LET q == toLowerCase(trim(searchQuery)) IN
    \/ q = <<>>
    \/ TextContains(c.name, q)
    \/ TextContains(c.address, q)
    \/ TextContains(c.deliveryPerson, q)
    \/ TextContains(c.orderDetails, q)

DistanceTo(c) ==
    calculateDistance(currentLocation[1].latitude, currentLocation[1].longitude,
                      c.latitude[1], c.longitude[1])

----------------------------------------------------------------------------
\* C1: with the device at (0,0) and the customers A (0,0) pending, B (0,1)
\* pending and C (0,0.5) delivered, the ranked list is [A, B] with A at
\* distance 0 and B carrying a distance, and the nearest pick is A at
\* distance 0.
C1_ZeroCoordinatesArePositions ==
    (/\ customers = Snapshot(<<RecA, RecB, RecC>>)
     /\ currentLocation = Some(Position(0, 0))
     /\ searchQuery = <<>>)
    => /\ Len(sortedCustomers) = 2
       /\ sortedCustomers[1]._id = 1
       /\ sortedCustomers[1].distance = Some(0)
       /\ sortedCustomers[2]._id = 2
       /\ sortedCustomers[2].distance # None
       /\ nearestCustomer # None
       /\ nearestCustomer[1]._id = 1
       /\ nearestCustomer[1].distance = Some(0)

\* C2: a ranked entry carries a distance if and only if the device position
\* is known and the customer has both a latitude and a longitude.
C2_DistanceIffPositioned ==
    \A k \in RankedPositions :
        (sortedCustomers[k].distance # None)
            <=> (currentLocation # None /\ Positioned(sortedCustomers[k]))

\* C3: the ranked list contains no customer whose status is "delivered" in
\* any capitalisation, whatever the snapshot, the device position and the
\* query.
C3_NoDeliveredRanked ==
    \A k \in RankedPositions : ~DeliveredStatus(sortedCustomers[k])

C3_Witness ==
    /\ ~renderError
    /\ Len(sortedCustomers) > 0
    /\ toLowerCase(trim(searchQuery)) # <<>>
    /\ \E i \in 1..Len(customers) :
          /\ DeliveredStatus(customers[i])
          /\ customers[i].status[1] # DELIVERED
          /\ QueryMatches(customers[i])

\* C4: with an empty query every customer whose status is not "delivered"
\* (cancelled, any other label, no status) is in the ranked list exactly
\* once.
C4_OnlyDeliveredRemoves ==
    searchQuery = <<>> =>
        \A i \in 1..Len(customers) :
            ~DeliveredStatus(customers[i]) =>
                Cardinality({k \in RankedPositions : sortedCustomers[k]._id = i}) = 1

C4_Witness ==
    /\ searchQuery = <<>>
    /\ currentLocation # None
    /\ Len(sortedCustomers) = 2
    /\ \E i \in 1..Len(customers) : DeliveredStatus(customers[i])
    /\ \E k \in RankedPositions : sortedCustomers[k].status = Some(CANCELLED)
    /\ \E k \in RankedPositions : sortedCustomers[k].status = None

\* C5: for records that have a name and an address, a customer that is not
\* delivered is in the ranked list if and only if the trimmed, lower-cased
\* query is empty or is a substring of the lower-cased name, address,
\* deliveryPerson or orderDetails, a missing deliveryPerson or orderDetails
\* counting as a non-match of that field only.
C5_QueryFilter ==
    WellTyped =>
        \A i \in 1..Len(customers) :
            ~DeliveredStatus(customers[i]) =>
                (Ranked(i) <=> QueryMatches(customers[i]))

C5_Witness ==
    /\ WellTyped
    /\ toLowerCase(trim(searchQuery)) # <<>>
    /\ searchQuery # toLowerCase(trim(searchQuery))
    /\ \E i \in 1..Len(customers) :
          /\ Ranked(i)
          /\ customers[i].deliveryPerson = None
          /\ ~TextContains(customers[i].name, toLowerCase(trim(searchQuery)))
          /\ ~TextContains(customers[i].address, toLowerCase(trim(searchQuery)))
    /\ \E i \in 1..Len(customers) :
          ~DeliveredStatus(customers[i]) /\ ~Ranked(i)

\* C6: in the ranked list every entry with a distance precedes every entry
\* without one, whatever the input order.
C6_DistanceBeforeNone ==
    \A k1, k2 \in RankedPositions :
        (k1 < k2 /\ sortedCustomers[k2].distance # None)
            => sortedCustomers[k1].distance # None

C6_Witness ==
    \E k1, k2 \in RankedPositions :
        /\ k1 < k2
        /\ sortedCustomers[k1].distance # None
        /\ sortedCustomers[k2].distance = None
        /\ sortedCustomers[k2]._id < sortedCustomers[k1]._id

\* C7: among the ranked entries that carry a distance, distances are
\* non-decreasing from first to last.
C7_DistancesNonDecreasing ==
    \A k1, k2 \in RankedPositions :
        (/\ k1 < k2
         /\ sortedCustomers[k1].distance # None
         /\ sortedCustomers[k2].distance # None)
            => sortedCustomers[k1].distance[1] <= sortedCustomers[k2].distance[1]

C7_Witness ==
    \E k1, k2 \in RankedPositions :
        /\ k1 < k2
        /\ sortedCustomers[k1].distance # None
        /\ sortedCustomers[k2].distance # None
        /\ sortedCustomers[k1].distance[1] < sortedCustomers[k2].distance[1]
        /\ sortedCustomers[k2]._id < sortedCustomers[k1]._id

\* C8: two ranked entries with the same distance value are in the order they
\* have in the snapshot.
C8_StableTies ==
    \A k1, k2 \in RankedPositions :
        (/\ k1 < k2
         /\ sortedCustomers[k1].distance # None
         /\ sortedCustomers[k1].distance = sortedCustomers[k2].distance)
            => sortedCustomers[k1]._id < sortedCustomers[k2]._id

C8_Witness ==
    \E k1, k2, k3 \in RankedPositions :
        /\ k1 < k2
        /\ sortedCustomers[k1].distance # None
        /\ sortedCustomers[k1].distance = sortedCustomers[k2].distance
        /\ sortedCustomers[k3].distance # None
        /\ sortedCustomers[k3].distance # sortedCustomers[k1].distance

\* C9: for records that have a name and an address: without a device
\* position the ranked list is exactly the customers that are not delivered
\* and match the query, none with a distance, in snapshot order; and with or
\* without a device position the entries without a distance are in snapshot
\* order among themselves.
C9_NoDistanceKeepsInputOrder ==
    /\ (WellTyped /\ currentLocation = None) =>
          /\ \A i \in 1..Len(customers) :
                Ranked(i) <=> (~DeliveredStatus(customers[i]) /\ QueryMatches(customers[i]))
          /\ \A k \in RankedPositions : sortedCustomers[k].distance = None
    /\ \A k1, k2 \in RankedPositions :
          (/\ k1 < k2
           /\ sortedCustomers[k1].distance = None
           /\ sortedCustomers[k2].distance = None)
              => sortedCustomers[k1]._id < sortedCustomers[k2]._id

C9_Witness ==
    /\ WellTyped
    /\ currentLocation = None
    /\ toLowerCase(trim(searchQuery)) # <<>>
    /\ Len(sortedCustomers) = 2
    /\ Len(customers) = 3
    /\ \A i \in 1..Len(customers) :
          TruthyNumber(customers[i].latitude) /\ TruthyNumber(customers[i].longitude)

\* C10: with a known device position and at least one customer that is not
\* delivered and has a position, the nearest pick is such a customer, no
\* other such customer is closer, and among those at the minimal distance it
\* is the first of the snapshot.
C10_NearestIsClosestPositioned ==
    LET Eligible(c) == ~DeliveredStatus(c) /\ Positioned(c) IN
    (currentLocation # None /\ \E i \in 1..Len(customers) : Eligible(customers[i]))
    => /\ nearestCustomer # None
       /\ Eligible(nearestCustomer[1])
       /\ \A j \in 1..Len(customers) :
             Eligible(customers[j]) =>
                /\ nearestCustomer[1].distance[1] <= DistanceTo(customers[j])
                /\ (nearestCustomer[1].distance[1] = DistanceTo(customers[j])
                       => nearestCustomer[1]._id <= j)

\* C11: the nearest pick is none whenever the device position is absent, the
\* snapshot is empty, or every customer is delivered or lacks a latitude or
\* a longitude.
C11_NoPickWithoutEligible ==
    (\/ currentLocation = None
     \/ Len(customers) = 0
     \/ \A i \in 1..Len(customers) :
           DeliveredStatus(customers[i]) \/ ~Positioned(customers[i]))
    => nearestCustomer = None

C11_Witness ==
    /\ currentLocation # None
    /\ nearestCustomer = None
    /\ \A i \in 1..Len(customers) :
          DeliveredStatus(customers[i]) \/ ~Positioned(customers[i])
    /\ \E i \in 1..Len(customers) :
          /\ DeliveredStatus(customers[i])
          /\ TruthyNumber(customers[i].latitude)
          /\ TruthyNumber(customers[i].longitude)
    /\ \E i \in 1..Len(customers) :
          ~DeliveredStatus(customers[i]) /\ ~Positioned(customers[i])

\* C12: a step that changes the search text leaves the nearest pick as it
\* was, also when the new text matches no customer.
C12_QueryLeavesPick ==
    [][searchQuery' # searchQuery => nearestCustomer' = nearestCustomer]_vars

C12_Witness ==
    /\ toLowerCase(trim(searchQuery)) # <<>>
    /\ ~renderError
    /\ sortedCustomers = <<>>
    /\ nearestCustomer # None
    /\ ~QueryMatches(customers[nearestCustomer[1]._id])

\* C13: the filter raises no error for any snapshot and any query text, a
\* record without name or address included.
C13_FilterNeverThrows == ~renderError

\* C14: a customer with only one of latitude and longitude gets no distance
\* in the ranked list and is never the nearest pick.
C14_PartialPositionIsNoPosition ==
    LET Partial(c) == (c.latitude = None) # (c.longitude = None) IN
    /\ \A k \in RankedPositions :
          Partial(sortedCustomers[k]) => sortedCustomers[k].distance = None
    /\ nearestCustomer # None => ~Partial(nearestCustomer[1])

C14_Witness ==
    /\ currentLocation # None
    /\ ~renderError
    /\ nearestCustomer # None
    /\ \E k1, k2, k3 \in RankedPositions :
          /\ k1 < k2 /\ k2 < k3
          /\ sortedCustomers[k1].distance # None
          /\ sortedCustomers[k2].latitude # None
          /\ sortedCustomers[k2].longitude = None
          /\ sortedCustomers[k3].latitude = None
          /\ sortedCustomers[k3].longitude # None
          /\ sortedCustomers[k1]._id > sortedCustomers[k2]._id

\* C16: the ranked list is a rearrangement of part of the snapshot: every
\* entry is a customer of the snapshot with each field unchanged, no
\* customer occurs twice, and the list is no longer than the snapshot.
C16_RankedIsSubPermutation ==
    /\ Len(sortedCustomers) <= Len(customers)
    /\ \A k \in RankedPositions :
          /\ sortedCustomers[k]._id \in 1..Len(customers)
          /\ \A f \in DOMAIN customers[sortedCustomers[k]._id] :
                /\ f \in DOMAIN sortedCustomers[k]
                /\ sortedCustomers[k][f] = customers[sortedCustomers[k]._id][f]
    /\ \A k1, k2 \in RankedPositions :
          k1 # k2 => sortedCustomers[k1]._id # sortedCustomers[k2]._id

C16_Witness ==
    /\ Len(customers) = 3
    /\ Len(sortedCustomers) = 2
    /\ currentLocation # None
    /\ sortedCustomers[1]._id > sortedCustomers[2]._id

\* C15: computing the ranked list and the nearest pick leaves the snapshot
\* as it was: the same length, the same order, the same fields in every
\* record, none of them gaining a distance field.
C15_SnapshotUntouched ==
    /\ [](\A i \in 1..Len(customers) : "distance" \notin DOMAIN customers[i])
    /\ [][customers' = customers]_vars

C15_Witness ==
    /\ currentLocation # None
    /\ toLowerCase(trim(searchQuery)) # <<>>
    /\ Len(customers) = 3
    /\ Len(sortedCustomers) = 2
    /\ sortedCustomers[1]._id > sortedCustomers[2]._id
    /\ sortedCustomers[1].distance # None

\* The render reaches the end: neither the filter nor a list item throws.
RenderCompletes ==
    /\ ~renderError
    /\ \A k \in RankedPositions : ~ListItemThrows(sortedCustomers[k])

\* "Within range!" is on the screen for entry k of the list.
WithinRangeShown(k) == RenderCompletes /\ WithinRangeText(sortedCustomers[k])

\* "You're nearby!" is on the screen, in the nearest-customer card.
YoureNearbyShown ==
    /\ RenderCompletes
    /\ NearestCardVisible(customers)
    /\ nearestCustomer # None
    /\ YoureNearbyText(nearestCustomer[1])

\* Every record has the name, the address and the status the type Customer
\* requires.
TypeConformant ==
    WellTyped /\ \A i \in 1..Len(customers) : customers[i].status # None

C18_DistanceSymmetricZeroNatural ==
    /\ distanceAB # None => distanceAB[1] \in Nat
    /\ distanceBA # None => distanceBA[1] \in Nat
    /\ (distanceAB # None /\ distanceBA # None) => distanceAB = distanceBA
    /\ (pointA = pointB /\ distanceAB # None) => distanceAB = Some(0)
    /\ (pointA = pointB /\ distanceBA # None) => distanceBA = Some(0)

C18_Witness ==
    /\ pointA.latitude # pointB.latitude
    /\ pointA.longitude # pointB.longitude
    /\ distanceAB # None
    /\ distanceBA # None
    /\ distanceAB[1] > 0

\* The calls of flashLog before call j, and the last consumeFlash among
\* them (0 when there is none).
ConsumesBefore(j) == {i \in 1..(j - 1) : flashLog[i].op = "consumeFlash"}

LastConsumeBefore(j) ==
    IF ConsumesBefore(j) = {} THEN 0
    ELSE CHOOSE i \in ConsumesBefore(j) : \A h \in ConsumesBefore(j) : h <= i

\* The setFlash calls since the last consumeFlash before call j.
SetsSinceConsume(j) ==
    {i \in (LastConsumeBefore(j) + 1)..(j - 1) : flashLog[i].op = "setFlash"}

\* C20: in every sequence of setFlash and consumeFlash calls, a consumeFlash
\* with no setFlash since the previous consumeFlash (or the start) returns
\* null, any other returns the message of a setFlash made since then, so no
\* setFlash is answered by two consumeFlash calls; and after a consumeFlash
\* the slot is empty.
C20_FlashReadOnce ==
    /\ \A j \in 1..Len(flashLog) :
          flashLog[j].op = "consumeFlash" =>
              IF SetsSinceConsume(j) = {}
              THEN flashLog[j].value = None
              ELSE \E i \in SetsSinceConsume(j) : flashLog[j].value = flashLog[i].value
    /\ (flashLog # <<>> /\ flashLog[Len(flashLog)].op = "consumeFlash")
          => flashMessage = None

C20_Witness ==
    \E i, j \in 1..Len(flashLog) :
        /\ i + 1 < j
        /\ flashLog[i].op = "setFlash"
        /\ flashLog[i + 1].op = "consumeFlash"
        /\ flashLog[i + 1].value = flashLog[i].value
        /\ flashLog[j].op = "consumeFlash"
        /\ flashLog[j].value = None
        /\ flashLog[j - 1].op = "consumeFlash"


\* C25: with an empty (or blank) query and a known device position, a
\* nearest pick that is not none is the same customer with the same distance
\* as the first entry of the ranked list; and whenever the condition of the
\* nearest-customer card holds and the device position is known, the pick is
\* not none.
C25_PickIsFirstRanked ==
    /\ (trim(searchQuery) = <<>> /\ currentLocation # None /\ nearestCustomer # None)
          => /\ ~renderError
             /\ Len(sortedCustomers) >= 1
             /\ sortedCustomers[1]._id = nearestCustomer[1]._id
             /\ sortedCustomers[1].distance # None
             /\ sortedCustomers[1].distance = nearestCustomer[1].distance
    /\ (NearestCardVisible(customers) /\ currentLocation # None)
          => nearestCustomer # None

\* Two non-delivered customers at the same distance behind a customer
\* without a distance: the pick and the head of the list are the first of
\* the two, and the card is visible.
C25_Witness ==
    /\ searchQuery = <<>>
    /\ currentLocation # None
    /\ NearestCardVisible(customers)
    /\ nearestCustomer # None
    /\ Len(sortedCustomers) = 3
    /\ sortedCustomers[1]._id = 2
    /\ sortedCustomers[2]._id = 3
    /\ sortedCustomers[2].distance = sortedCustomers[1].distance
    /\ sortedCustomers[3].distance = None

----------------------------------------------------------------------------
(* Properties of the asynchronous handlers of the home screen.             *)

SuccessAlert == [title |-> "Success", message |-> "Order marked as delivered"]

\* The k-th loadCustomers call completes in this step.
LoadCompletes(k) == loads[k].pc = "awaiting" /\ loads'[k].pc = "done"

\* The response a completed call received is success true with an array.
GoodResponse(r) == r.kind = "resolve" /\ r.success /\ r.customers # None

\* C21: when the status update of a handleMarkDelivered call succeeds, a
\* reload is issued and no alert shown yet; the "Order marked as delivered"
\* alert is shown only when that reload has completed, and only for such a
\* call; when the status update fails, no reload is issued, the snapshot is
\* unchanged and an error alert, not the success alert, is shown.
C21_MarkDeliveredReloads ==
    /\ [](/\ \A m \in 1..Len(marks) :
               /\ marks[m].pc \in {"reloading", "done"}
                     => /\ marks[m].load \in 1..Len(loads)
                        /\ loads[marks[m].load].mark = m
               /\ marks[m].pc = "done" => loads[marks[m].load].pc = "done"
               /\ marks[m].pc = "failed" => marks[m].load = 0
          /\ Cardinality({i \in 1..Len(alerts) : alerts[i] = SuccessAlert})
                = Cardinality({m \in 1..Len(marks) : marks[m].pc = "done"}))
    /\ [][\A m \in 1..Len(marks) :
             /\ (marks[m].pc = "updating" /\ marks'[m].pc = "failed")
                   => /\ loads' = loads
                      /\ customers' = customers
                      /\ Len(alerts') = Len(alerts) + 1
                      /\ alerts'[Len(alerts')].title = "Error"
                      /\ alerts'[Len(alerts')] # SuccessAlert
             /\ (marks[m].pc = "updating" /\ marks'[m].pc \notin {"updating", "failed"})
                   => /\ Len(loads') = Len(loads) + 1
                      /\ loads'[Len(loads')].pc = "awaiting"
                      /\ marks'[m].load = Len(loads')
                      /\ alerts' = alerts
             /\ (marks[m].pc # "done" /\ marks'[m].pc = "done")
                   => /\ marks'[m].load \in 1..Len(loads)
                      /\ LoadCompletes(marks'[m].load)
                      /\ alerts'[Len(alerts')] = SuccessAlert
       ]_vars

\* A handleMarkDelivered call has finished with the success alert, after its
\* reload brought the snapshot in which the customer is delivered.
C21_Witness ==
    /\ Len(marks) = 1
    /\ marks[1].pc = "done"
    /\ marks[1].load > 1
    /\ GoodResponse(loads[marks[1].load].response[1])
    /\ customers = DeliveredPayload
    /\ nearestCustomer # None
    /\ alerts = <<SuccessAlert>>

\* C23: a loadCustomers call ends with loading and refreshing false; on a
\* response of success true with an array the snapshot is that array and
\* error is null; on a rejection or any other response the snapshot is
\* unchanged and error is a non-empty message.
C23_LoadOutcome ==
    [][\A k \in 1..Len(loads) :
          LoadCompletes(k) =>
             LET r == loads'[k].response[1] IN
             /\ loading' = FALSE
             /\ refreshing' = FALSE
             /\ IF GoodResponse(r)
                THEN customers' = r.customers[1] /\ error' = None
                ELSE customers' = customers /\ error' # None /\ error'[1] # ""
      ]_vars

\* The completed calls that received success true with an array.
SuccessfulLoads ==
    {k \in 1..Len(loads) : loads[k].pc = "done" /\ GoodResponse(loads[k].response[1])}

\* The successful call whose response was processed last.
LastSuccessful ==
    CHOOSE k \in SuccessfulLoads : \A j \in SuccessfulLoads : loads[j].stamp <= loads[k].stamp

\* C26: once some call has succeeded, the snapshot is the payload of the
\* successful response processed last, in whatever order the calls were
\* made, in particular when all calls have completed; and each completion
\* sets loading and refreshing to false.
C26_LastProcessedWins ==
    /\ [](SuccessfulLoads # {} =>
             customers = loads[LastSuccessful].response[1].customers[1])
    /\ [][\A k \in 1..Len(loads) :
             LoadCompletes(k) => loading' = FALSE /\ refreshing' = FALSE]_vars

\* Three calls, all completed; the response processed last belongs to the
\* first call and differs from the response of the call made last.
C26_Witness ==
    /\ Len(loads) = 3
    /\ \A k \in 1..3 : loads[k].pc = "done"
    /\ SuccessfulLoads = {1, 3}
    /\ loads[3].stamp < loads[1].stamp
    /\ loads[1].response # loads[3].response
    /\ customers = loads[1].response[1].customers[1]
    /\ ~loading
    /\ ~refreshing

----------------------------------------------------------------------------
(* Properties of the add-customer screen.                                  *)

\* The text has a character that is not a space.
NotBlank(text) == \E i \in 1..Len(text) : text[i] # " "

\* The texts of the fields that read as a number within the limits: " 45"
\* is 45; "-180" is -180; "8x" reads as 8, what follows the number being
\* ignored.  "90.5" and "-181" are outside the limits, "x7" is no number.
LatitudeInRange == {<<" ", "4", "5">>}
LongitudeInRange == {<<"-", "1", "8", "0">>, <<"8", "x">>}

FormValid ==
    /\ NotBlank(formData.name)
    /\ NotBlank(formData.address)
    /\ NotBlank(formData.latitude) => formData.latitude \in LatitudeInRange
    /\ NotBlank(formData.longitude) => formData.longitude \in LongitudeInRange

\* A step in which a validation of handleSubmit fails.
ValidationFails ==
    /\ Len(alerts') = Len(alerts) + 1
    /\ alerts'[Len(alerts')].title = "Validation Error"

\* A step in which the flash is set, or the home route is pushed.
FlashSetOrNavigated ==
    \/ Len(flashLog') = Len(flashLog) + 1 /\ flashLog'[Len(flashLog')].op = "setFlash"
    \/ route = "/add-customer" /\ route' = "/"

\* C24: createCustomer is called only with a name and an address that are
\* not blank, a latitude that is blank or a number in [-90, 90] and a
\* longitude that is blank or a number in [-180, 180]; a failed validation
\* sends no request, sets no flash, does not navigate and leaves loading
\* false; the flash is set and the home route pushed only in the step in
\* which createCustomer resolves.
C24_SubmitValidates ==
    [][/\ Len(createCalls') > Len(createCalls)
            => /\ FormValid
               /\ Len(createCalls') = Len(createCalls) + 1
               /\ createCalls'[Len(createCalls')].pc = "awaiting"
       /\ (Len(alerts') + Len(createCalls') > Len(alerts) + Len(createCalls)
              /\ route = "/add-customer" /\ ~submitLoading /\ ~FormValid)
            => ValidationFails
       /\ ValidationFails
            => /\ ~FormValid
               /\ createCalls' = createCalls
               /\ flashMessage' = flashMessage
               /\ flashLog' = flashLog
               /\ route' = route
               /\ submitLoading' = FALSE
       /\ FlashSetOrNavigated
            => /\ \E c \in 1..Len(createCalls) :
                     createCalls[c].pc = "awaiting" /\ createCalls'[c].pc = "created"
               /\ flashMessage' = Some("Customer added successfully")
               /\ route' = "/"
      ]_vars

\* A longitude out of range was refused, then a customer with a latitude
\* and a longitude was created and the home route pushed.
C24_Witness ==
    /\ Len(alerts) = 1
    /\ alerts[1].message = "Longitude must be a valid number between -180 and 180"
    /\ Len(createCalls) = 1
    /\ createCalls[1].pc = "created"
    /\ createCalls[1].payload.latitude # None
    /\ createCalls[1].payload.longitude # None
    /\ flashLog # <<>>
    /\ route = "/"
    /\ ~submitLoading

====
